---- MODULE Spec2Model ----
(***************************************************************************)
(* Model of apps/mathorcam.cpp: main, setup_keyboard / restore_keyboard,   *)
(* get_keypress, save_metadata and event_loop, the capture session loop    *)
(* that switches a camera between the viewfinder and the still profile.    *)
(*                                                                         *)
(* The program is one thread.  pc is its position; every call that the     *)
(* claims order against another call is a step of its own, and `calls`     *)
(* records the collaborator calls issued since the last app.Wait().        *)
(***************************************************************************)
EXTENDS Integers, Sequences, FiniteSets, TLC

\* ------------------------------------------------------------------ bounds
MaxClock   == 2    \* the clock runs over 0..MaxClock
MaxTimeout == 1    \* options->timeout ranges over 0..MaxTimeout (0: unset)
MaxPending == 2    \* characters waiting on stdin
MaxCycles  == 2    \* completed capture cycles are counted up to MaxCycles

\* ------------------------------------------------------- program constants
KEY_NONE == 0      \* get_keypress: "return 0" when nothing was read
KEY_C    == 99     \* 'c'
KEY_X    == KEY_C + 21   \* some character other than 'c': 'x'
GPIOD_LINE_VALUE_ERROR    == -1
GPIOD_LINE_VALUE_INACTIVE == 0
GPIOD_LINE_VALUE_ACTIVE   == 1

Keys       == {KEY_C, KEY_X}
LineValues == {GPIOD_LINE_VALUE_ERROR, GPIOD_LINE_VALUE_INACTIVE, GPIOD_LINE_VALUE_ACTIVE}

\* RPiCamApp::MsgType as event_loop distinguishes it: the three types it
\* names and "anything else" (the final else-if of the dispatch).
MsgTypes == {"Timeout", "Quit", "RequestComplete", "Other"}

\* struct termios, reduced to the fields setup_keyboard touches.
Termios == [icanon : BOOLEAN, echo : BOOLEAN, vmin : 0..1, vtime : 0..1]

\* The terminal configuration the process is started under: canonical input
\* with echo, read() blocking for one character.
StartTermios == { t \in Termios : t.icanon /\ t.echo /\ t.vmin = 1 /\ t.vtime = 0 }

\* options->Get().metadata: empty, the "-" sentinel, or a file name.
MetadataNames == {"", "-", "meta.json"}

VARIABLES
    pc,                   \* position of the thread
    term,                 \* the terminal's current configuration (stdin)
    term0,                \* history: the configuration at process start
    orig_termios,         \* main's local struct termios: the set of values it may hold
    output_set,           \* options->Get().output is not empty
    timeout,              \* options->Get().timeout (0: unset)
    metadata,             \* options->Get().metadata
    parsed,               \* options->Parse(argc, argv) returned true
    exit_code,            \* main's return value, "none" while running
    thrown,               \* what() of the exception in flight / caught
    opened,               \* camera opened
    profile,              \* configured streams: "none", "viewfinder", "still"
    started,              \* camera started
    clock,                \* high_resolution_clock
    start_time,           \* event_loop's start_time
    chip,                 \* gpiod chip: "unset", "null", "open", "closed"
    request,              \* line request: "unset", "null", "held", "released"
    n_release,            \* calls of gpiod_line_request_release
    n_close,              \* calls of gpiod_chip_close
    n_restore,            \* calls of restore_keyboard
    stdin,                \* characters typed and not yet read
    msg,                  \* msg.type of the event being processed
    iter_mode,            \* history: profile when the event was received
    now,                  \* event_loop's now
    key,                  \* event_loop's key
    shutter_button_value, \* event_loop's shutter_button_value
    timeout_passed,       \* event_loop's timeout_passed
    n_key_read,           \* calls of get_keypress since the last Wait
    n_line_read,          \* calls of gpiod_line_request_get_value since the last Wait
    guard,                \* a BufferReadSync is alive
    calls,                \* calls and log lines issued since the last Wait
    ever_c,               \* history: a 'c' was typed
    ever_active,          \* history: the button line was read active
    ever_timeout,         \* history: timeout_passed was once computed true
    cycles,               \* history: completed Viewfinder -> Still -> Viewfinder cycles
    snap                  \* history: the loop's state after the first cycle

vars == << pc, term, term0, orig_termios, output_set, timeout, metadata,
           exit_code, thrown, opened, profile, started, clock,
           start_time, chip, request, n_release, n_close, n_restore, stdin,
           msg, iter_mode, now, key, shutter_button_value,
           timeout_passed, guard, calls, ever_c, ever_active,
           parsed, n_key_read, n_line_read, ever_timeout, cycles, snap >>

env_vars  == << clock, stdin, ever_c, ever_active, ever_timeout >>
term_vars == << term, term0, orig_termios, n_restore >>
opt_vars  == << output_set, timeout, metadata, parsed >>
cam_vars  == << opened, profile, started >>
gpio_vars == << chip, request, n_release, n_close >>
cycle_vars == << cycles, snap >>
iter_vars == << msg, iter_mode, now, key, shutter_button_value, timeout_passed,
               n_key_read, n_line_read >>

Call(op) == calls' = Append(calls, op)

\* ------------------------------------------------- camera session (RPiCamApp)
\* The effect of the RPiCamApp lifecycle calls on the state event_loop
\* observes through ViewfinderStream() / StillStream().
OpenCamera    == opened' = TRUE
Configure(p)  == profile' = p
StartCamera   == started' = TRUE
StopCamera    == started' = FALSE
Teardown      == profile' = "none"
ViewfinderStream == profile = "viewfinder"
StillStream      == profile = "still"

\* ------------------------------------------------------------------- Init
Init ==
    /\ pc = "main"
    /\ term \in StartTermios
    /\ term0 = term
    /\ orig_termios = Termios        \* "struct termios orig_termios;": indeterminate
    /\ output_set = FALSE /\ timeout = 0 /\ metadata = "" /\ parsed = FALSE
    /\ exit_code = "none"
    /\ thrown = "none"
    /\ opened = FALSE /\ profile = "none" /\ started = FALSE
    /\ clock = 0 /\ start_time = 0
    /\ chip = "unset" /\ request = "unset"
    /\ n_release = 0 /\ n_close = 0 /\ n_restore = 0
    /\ stdin = << >>
    /\ msg = "none" /\ iter_mode = "none"
    /\ now = 0 /\ key = KEY_NONE
    /\ shutter_button_value = GPIOD_LINE_VALUE_INACTIVE
    /\ timeout_passed = FALSE
    /\ n_key_read = 0 /\ n_line_read = 0
    /\ guard = FALSE
    /\ calls = << >>
    /\ ever_c = FALSE /\ ever_active = FALSE /\ ever_timeout = FALSE
    /\ cycles = 0 /\ snap = << >>

\* ------------------------------------------------------------ environment
Running == pc # "done"

\* Time passes.
Tick ==
    /\ Running /\ clock < MaxClock
    /\ clock' = clock + 1
    /\ UNCHANGED << cycle_vars, pc, term_vars, opt_vars, exit_code, thrown, cam_vars,
                    start_time, gpio_vars, stdin, iter_vars, guard,
                    calls, ever_c, ever_active, ever_timeout >>

\* The user types a character.
TypeKey ==
    /\ Running /\ Len(stdin) < MaxPending
    /\ \E k \in Keys :
         /\ stdin' = Append(stdin, k)
         /\ ever_c' = (ever_c \/ k = KEY_C)
    /\ UNCHANGED << cycle_vars, pc, term_vars, opt_vars, exit_code, thrown, cam_vars,
                    clock, start_time, gpio_vars, iter_vars, guard,
                    calls, ever_active, ever_timeout >>

\* --------------------------------------------------------------- keyboard
\* setup_keyboard, lines 48-55: raw is the read configuration with ICANON and
\* ECHO cleared and VMIN = VTIME = 0.
RawOf(t) == [t EXCEPT !.icanon = FALSE, !.echo = FALSE, !.vmin = 0, !.vtime = 0]

\* setup_keyboard(struct termios orig_termios): the parameter is a copy, so
\* tcgetattr fills the callee's copy and main's orig_termios is not written.
setup_keyboard ==
    /\ pc = "main"
    /\ LET param == term               \* tcgetattr(STDIN_FILENO, &orig_termios)
       IN  term' = RawOf(param)        \* tcsetattr(STDIN_FILENO, TCSANOW, &raw)
    /\ pc' = "parse"
    /\ UNCHANGED << cycle_vars, term0, orig_termios, n_restore, opt_vars, exit_code, thrown, cam_vars, start_time, gpio_vars, env_vars, iter_vars,
                    guard, calls >>

\* restore_keyboard(orig_termios): tcsetattr with the value main holds.
restore_keyboard ==
    /\ \E t \in orig_termios : term' = t
    /\ n_restore' = n_restore + 1
    /\ UNCHANGED << term0, orig_termios >>

\* Mutant of get_keypress_value: the newest pending character is returned.
get_keypress_value_Last == IF Len(stdin) > 0 THEN stdin[Len(stdin)] ELSE KEY_NONE

\* get_keypress(): read() of one character, 0 when nothing is pending.
get_keypress_value == IF Len(stdin) > 0 THEN Head(stdin) ELSE KEY_NONE
get_keypress_rest  == IF Len(stdin) > 0 THEN Tail(stdin) ELSE stdin

\* ------------------------------------------------------------------- main
\* options->Parse returns false (e.g. --help): main falls to the final
\* restore_keyboard and returns 0.
ParseFalse ==
    /\ pc = "parse"
    /\ pc' = "main_return"
    /\ UNCHANGED << cycle_vars, term_vars, opt_vars, exit_code, thrown, cam_vars,
                    start_time, gpio_vars, env_vars, iter_vars, guard,
                    calls >>

\* Mutant of OutputMissing: the empty output name is not checked and
\* event_loop is entered.
OutputMissing_NotChecked ==
    /\ pc = "parse"
    /\ \E t \in 0..MaxTimeout, m \in MetadataNames :
         /\ timeout' = t /\ metadata' = m /\ output_set' = FALSE
    /\ parsed' = TRUE
    /\ pc' = "el_open"
    /\ UNCHANGED << cycle_vars, term_vars, exit_code, thrown, cam_vars, start_time,
                    gpio_vars, env_vars, iter_vars, guard, calls >>

\* Parse succeeded and output is empty: throw "output file name required".
OutputMissing ==
    /\ pc = "parse"
    /\ \E t \in 0..MaxTimeout, m \in MetadataNames :
         /\ timeout' = t /\ metadata' = m /\ output_set' = FALSE
    /\ parsed' = TRUE
    /\ thrown' = "output file name required"
    /\ pc' = "main_catch"
    /\ UNCHANGED << cycle_vars, term_vars, exit_code, cam_vars, start_time,
                    gpio_vars, env_vars, iter_vars, guard, calls >>

\* Parse succeeded with an output name: the PISP warning, then event_loop.
ParseOk ==
    /\ pc = "parse"
    /\ \E t \in 0..MaxTimeout, m \in MetadataNames :
         /\ timeout' = t /\ metadata' = m /\ output_set' = TRUE
    /\ parsed' = TRUE
    /\ \E pisp \in BOOLEAN :         \* GetPlatform() == Platform::PISP
         calls' = IF pisp THEN Append(calls, "LOG_ERROR") ELSE calls
    /\ pc' = "el_open"
    /\ UNCHANGED << cycle_vars, term_vars, exit_code, thrown, cam_vars, start_time,
                    gpio_vars, env_vars, iter_vars, guard >>

\* catch (std::exception const &e): log, restore_keyboard, return -1.
MainCatch ==
    /\ pc = "main_catch"
    /\ Call("LOG_ERROR")
    /\ restore_keyboard
    /\ exit_code' = -1
    /\ pc' = "done"
    /\ UNCHANGED << cycle_vars, opt_vars, thrown, cam_vars, start_time, gpio_vars, env_vars,
                    iter_vars, guard >>

\* Normal end of main: restore_keyboard, return 0.
MainReturn ==
    /\ pc = "main_return"
    /\ restore_keyboard
    /\ exit_code' = 0
    /\ pc' = "done"
    /\ UNCHANGED << cycle_vars, opt_vars, thrown, cam_vars, start_time, gpio_vars,
                    env_vars, iter_vars, guard, calls >>

\* ------------------------------------------------------------- event_loop
\* OpenCamera, ConfigureViewfinder, StartCamera, start_time = now().
ElOpen ==
    /\ pc = "el_open"
    /\ OpenCamera /\ Configure("viewfinder") /\ StartCamera
    /\ calls' = calls \o << "OpenCamera", "ConfigureViewfinder", "StartCamera" >>
    /\ start_time' = clock
    /\ pc' = "el_chip"
    /\ UNCHANGED << cycle_vars, term_vars, opt_vars, exit_code, thrown, gpio_vars,
                    env_vars, iter_vars, guard >>

\* gpiod_chip_open succeeded.
ChipOpenOk ==
    /\ pc = "el_chip"
    /\ chip' = "open"
    /\ pc' = "el_request"
    /\ UNCHANGED << cycle_vars, term_vars, opt_vars, exit_code, thrown, cam_vars,
                    start_time, request, n_release, n_close, env_vars, iter_vars,
                    guard, calls >>

\* gpiod_chip_open returned NULL: "return;" out of event_loop.
ChipOpenFails ==
    /\ pc = "el_chip"
    /\ chip' = "null"
    /\ pc' = "main_return"
    /\ UNCHANGED << cycle_vars, term_vars, opt_vars, exit_code, thrown, cam_vars,
                    start_time, request, n_release, n_close, env_vars, iter_vars,
                    guard, calls >>

\* gpiod_chip_request_lines succeeded.
RequestOk ==
    /\ pc = "el_request"
    /\ request' = "held"
    /\ pc' = "wait"
    /\ UNCHANGED << cycle_vars, term_vars, opt_vars, exit_code, thrown, cam_vars,
                    start_time, chip, n_release, n_close, env_vars, iter_vars,
                    guard, calls >>

\* gpiod_chip_request_lines returned NULL: "return;" out of event_loop.
RequestFails ==
    /\ pc = "el_request"
    /\ request' = "null"
    /\ pc' = "main_return"
    /\ UNCHANGED << cycle_vars, term_vars, opt_vars, exit_code, thrown, cam_vars,
                    start_time, chip, n_release, n_close, env_vars, iter_vars,
                    guard, calls >>

\* RPiCamApp::Msg msg = app.Wait();  a new iteration starts.
Wait ==
    /\ pc = "wait"
    /\ \E t \in MsgTypes : msg' = t
    /\ iter_mode' = profile
    /\ now' = 0 /\ key' = KEY_NONE
    /\ shutter_button_value' = GPIOD_LINE_VALUE_INACTIVE
    /\ timeout_passed' = FALSE
    /\ n_key_read' = 0 /\ n_line_read' = 0
    /\ calls' = << >>
    /\ pc' = "dispatch"
    /\ UNCHANGED << cycle_vars, term_vars, opt_vars, exit_code, thrown, cam_vars,
                    start_time, gpio_vars, env_vars, guard >>

\* msg.type == Timeout: LOG_ERROR, StopCamera ...
TimeoutStop ==
    /\ pc = "dispatch" /\ msg = "Timeout"
    /\ StopCamera /\ calls' = calls \o << "LOG_ERROR", "StopCamera" >>
    /\ pc' = "timeout_start"
    /\ UNCHANGED << cycle_vars, term_vars, opt_vars, exit_code, thrown, opened, profile,
                    start_time, gpio_vars, env_vars, iter_vars, guard >>

\* Mutant of TimeoutStart: the "continue" is missing, so the Timeout message
\* falls through the dispatch to the throw.
TimeoutStart_NoContinue ==
    /\ pc = "timeout_start"
    /\ StartCamera /\ Call("StartCamera")
    /\ thrown' = "unrecognised message!"
    /\ pc' = "main_catch"
    /\ UNCHANGED << cycle_vars, term_vars, opt_vars, exit_code, opened, profile,
                    start_time, gpio_vars, env_vars, iter_vars, guard >>

\* ... StartCamera, continue.
TimeoutStart ==
    /\ pc = "timeout_start"
    /\ StartCamera /\ Call("StartCamera")
    /\ pc' = "wait"
    /\ UNCHANGED << cycle_vars, term_vars, opt_vars, exit_code, thrown, opened, profile,
                    start_time, gpio_vars, env_vars, iter_vars, guard >>

\* msg.type == Quit: break.
Quit ==
    /\ pc = "dispatch" /\ msg = "Quit"
    /\ pc' = "el_release"
    /\ UNCHANGED << cycle_vars, term_vars, opt_vars, exit_code, thrown, cam_vars,
                    start_time, gpio_vars, env_vars, iter_vars, guard,
                    calls >>

\* msg.type is none of Timeout, Quit, RequestComplete: throw.
Unrecognised ==
    /\ pc = "dispatch" /\ msg \notin {"Timeout", "Quit", "RequestComplete"}
    /\ thrown' = "unrecognised message!"
    /\ pc' = "main_catch"
    /\ UNCHANGED << cycle_vars, term_vars, opt_vars, exit_code, cam_vars,
                    start_time, gpio_vars, env_vars, iter_vars, guard,
                    calls >>

\* Mutant of ReleaseGpio: the chip is not closed.
ReleaseGpio_NoChipClose ==
    /\ pc = "el_release"
    /\ request' = "released" /\ n_release' = n_release + 1
    /\ pc' = "main_return"
    /\ UNCHANGED << cycle_vars, term_vars, opt_vars, exit_code, thrown, cam_vars, chip, n_close,
                    start_time, env_vars, iter_vars, guard, calls >>

\* After the loop: gpiod_line_request_release, gpiod_chip_close, return.
ReleaseGpio ==
    /\ pc = "el_release"
    /\ request' = "released" /\ n_release' = n_release + 1
    /\ chip' = "closed" /\ n_close' = n_close + 1
    /\ pc' = "main_return"
    /\ UNCHANGED << cycle_vars, term_vars, opt_vars, exit_code, thrown, cam_vars,
                    start_time, env_vars, iter_vars, guard, calls >>

\* Mutant of TimeoutPassed: ">=" for ">".
TimeoutPassed_AtLeast(n, s, t) == t # 0 /\ (n - s) >= t
\* Mutant of KeyPressed: any character triggers.
KeyPressed_AnyKey(k) == k # KEY_NONE

\* The three trigger conditions of event_loop.
TimeoutPassed(n, s, t) == t # 0 /\ (n - s) > t
KeyPressed(k)          == k = KEY_C
ShutterPressed(v)      == v = GPIOD_LINE_VALUE_ACTIVE

\* Mutant of EvalTriggers: the viewfinder branch runs before the message type
\* is looked at.
EvalTriggers_AnyMessage ==
    /\ pc = "dispatch" /\ ViewfinderStream
    /\ now' = clock
    /\ key' = get_keypress_value
    /\ stdin' = get_keypress_rest
    /\ n_key_read' = n_key_read + 1
    /\ \E v \in LineValues : shutter_button_value' = v
    /\ n_line_read' = n_line_read + 1
    /\ ever_active' = (ever_active \/ ShutterPressed(shutter_button_value'))
    /\ timeout_passed' = TimeoutPassed(now', start_time, timeout)
    /\ ever_timeout' = (ever_timeout \/ timeout_passed')
    /\ pc' = IF timeout_passed' \/ KeyPressed(key') \/ ShutterPressed(shutter_button_value')
             THEN "vf_stop" ELSE "vf_preview"
    /\ UNCHANGED << cycle_vars, term_vars, opt_vars, exit_code, thrown, cam_vars,
                    clock, start_time, gpio_vars, ever_c,
                    msg, iter_mode, guard, calls >>

\* Viewfinder branch: read the clock, one key and the button line, and
\* evaluate the triggers.
EvalTriggers ==
    /\ pc = "dispatch" /\ msg = "RequestComplete" /\ ViewfinderStream
    /\ now' = clock
    /\ key' = get_keypress_value
    /\ stdin' = get_keypress_rest
    /\ n_key_read' = n_key_read + 1
    /\ \E v \in LineValues : shutter_button_value' = v   \* gpiod_line_request_get_value
    /\ n_line_read' = n_line_read + 1
    /\ ever_active' = (ever_active \/ ShutterPressed(shutter_button_value'))
    /\ timeout_passed' = TimeoutPassed(now', start_time, timeout)
    /\ ever_timeout' = (ever_timeout \/ timeout_passed')
    /\ pc' = IF timeout_passed' \/ KeyPressed(key') \/ ShutterPressed(shutter_button_value')
             THEN "vf_stop" ELSE "vf_preview"
    /\ UNCHANGED << cycle_vars, term_vars, opt_vars, exit_code, thrown, cam_vars,
                    clock, start_time, gpio_vars, ever_c,
                    msg, iter_mode, guard, calls >>

\* One camera lifecycle call of a mode change, at position `at`, going to `to`.
CamStep(at, to, name) ==
    /\ pc = at
    /\ Call(name)
    /\ pc' = to
    /\ UNCHANGED << cycle_vars, term_vars, opt_vars, exit_code, thrown, opened,
                    start_time, gpio_vars, env_vars, iter_vars, guard >>

\* Mutant of VfConfigureStill: the viewfinder profile is configured again.
VfConfigureStill_Viewfinder ==
    CamStep("vf_configure", "vf_start", "ConfigureViewfinder")
    /\ Configure("viewfinder") /\ UNCHANGED started

\* Mutant of VfStart: the loop goes back to Wait without StartCamera.
VfStart_NoStart ==
    /\ pc = "vf_start"
    /\ pc' = "wait"
    /\ UNCHANGED << cycle_vars, term_vars, opt_vars, exit_code, thrown, cam_vars,
                    start_time, gpio_vars, env_vars, iter_vars, guard, calls >>

\* Change mode to still picture.
VfStop           == CamStep("vf_stop", "vf_teardown", "StopCamera")
                    /\ StopCamera /\ UNCHANGED profile
VfTeardown       == CamStep("vf_teardown", "vf_configure", "Teardown")
                    /\ Teardown /\ UNCHANGED started
VfConfigureStill == CamStep("vf_configure", "vf_start", "ConfigureStill")
                    /\ Configure("still") /\ UNCHANGED started
VfStart          == CamStep("vf_start", "wait", "StartCamera")
                    /\ StartCamera /\ UNCHANGED profile

\* No trigger: app.ShowPreview(completed_request, app.ViewfinderStream()).
ShowPreview ==
    /\ pc = "vf_preview"
    /\ Call("ShowPreview")
    /\ pc' = "wait"
    /\ UNCHANGED << cycle_vars, term_vars, opt_vars, exit_code, thrown, cam_vars,
                    start_time, gpio_vars, env_vars, iter_vars, guard >>

\* Mutant of StillStop: the still branch does not test which stream is
\* configured.
StillStop_AnyProfile ==
    /\ pc = "dispatch" /\ msg = "RequestComplete"
    /\ StopCamera /\ Call("StopCamera")
    /\ pc' = "still_guard"
    /\ UNCHANGED << cycle_vars, term_vars, opt_vars, exit_code, thrown, opened, profile,
                    start_time, gpio_vars, env_vars, iter_vars, guard >>

\* Still branch: app.StopCamera().
StillStop ==
    /\ pc = "dispatch" /\ msg = "RequestComplete"
    /\ ~ViewfinderStream /\ StillStream
    /\ StopCamera /\ Call("StopCamera")
    /\ pc' = "still_guard"
    /\ UNCHANGED << cycle_vars, term_vars, opt_vars, exit_code, thrown, opened, profile,
                    start_time, gpio_vars, env_vars, iter_vars, guard >>

\* BufferReadSync r(&app, payload->buffers[stream]); mem = r.Get().
StillGuard ==
    /\ pc = "still_guard"
    /\ guard' = TRUE
    /\ Call("BufferReadSync")
    /\ pc' = "still_jpeg"
    /\ UNCHANGED << cycle_vars, term_vars, opt_vars, exit_code, thrown, cam_vars,
                    start_time, gpio_vars, env_vars, iter_vars >>

\* Mutant of JpegSave: save_metadata is called whether or not a metadata
\* destination is configured.
JpegSave_AlwaysMetadata ==
    /\ pc = "still_jpeg"
    /\ Call("jpeg_save")
    /\ pc' = "still_metadata"
    /\ UNCHANGED << cycle_vars, term_vars, opt_vars, exit_code, thrown, cam_vars,
                    start_time, gpio_vars, env_vars, iter_vars, guard >>

\* jpeg_save(...) returns; then "if (!options->Get().metadata.empty())".
JpegSave ==
    /\ pc = "still_jpeg"
    /\ Call("jpeg_save")
    /\ pc' = IF metadata # "" THEN "still_metadata" ELSE "still_stop"
    /\ UNCHANGED << cycle_vars, term_vars, opt_vars, exit_code, thrown, cam_vars,
                    start_time, gpio_vars, env_vars, iter_vars, guard >>

\* jpeg_save(...) throws: the BufferReadSync is destroyed on the way out.
JpegSaveThrows ==
    /\ pc = "still_jpeg"
    /\ Call("jpeg_save")
    /\ thrown' = "jpeg_save"
    /\ guard' = FALSE
    /\ pc' = "main_catch"
    /\ UNCHANGED << cycle_vars, term_vars, opt_vars, exit_code, cam_vars,
                    start_time, gpio_vars, env_vars, iter_vars >>

\* save_metadata: buf is cout's buffer for "-", the opened file's otherwise.
save_metadata(filename) ==
    IF filename # "-" THEN "write_metadata(file)" ELSE "write_metadata(cout)"

SaveMetadata ==
    /\ pc = "still_metadata"
    /\ Call(save_metadata(metadata))
    /\ pc' = "still_stop"
    /\ UNCHANGED << cycle_vars, term_vars, opt_vars, exit_code, thrown, cam_vars,
                    start_time, gpio_vars, env_vars, iter_vars, guard >>

\* write_metadata throws.
SaveMetadataThrows ==
    /\ pc = "still_metadata"
    /\ Call(save_metadata(metadata))
    /\ thrown' = "save_metadata"
    /\ guard' = FALSE
    /\ pc' = "main_catch"
    /\ UNCHANGED << cycle_vars, term_vars, opt_vars, exit_code, cam_vars,
                    start_time, gpio_vars, env_vars, iter_vars >>

\* Get back to viewfinder mode.
StillStopAgain ==
    CamStep("still_stop", "still_teardown", "StopCamera")
    /\ StopCamera /\ UNCHANGED profile
StillTeardown ==
    CamStep("still_teardown", "still_configure", "Teardown")
    /\ Teardown /\ UNCHANGED started
StillConfigureViewfinder ==
    CamStep("still_configure", "still_start", "ConfigureViewfinder")
    /\ Configure("viewfinder") /\ UNCHANGED started
\* What event_loop holds between two iterations: the camera session, the
\* GPIO handles, the buffer guard and the session start time.
LoopState(pr, st, op, ch, rq, gd, t0) ==
    << pr, st, op, ch, rq, gd, t0 >>

\* Mutant of StillStart: the BufferReadSync outlives the iteration.
StillStart_KeepsGuard ==
    /\ pc = "still_start"
    /\ StartCamera /\ Call("StartCamera")
    /\ pc' = "wait"
    /\ UNCHANGED << term_vars, opt_vars, exit_code, thrown, opened, profile,
                    start_time, gpio_vars, env_vars, iter_vars, guard >>
    /\ cycles' = IF cycles < MaxCycles THEN cycles + 1 ELSE cycles
    /\ snap' = IF cycles = 0
               THEN LoopState(profile', started', opened', chip', request', guard',
                              start_time')
               ELSE snap

\* Mutant of StillStart: the session start time is taken again when the loop
\* returns to the viewfinder.
StillStart_ResetsStartTime ==
    /\ pc = "still_start"
    /\ StartCamera /\ Call("StartCamera")
    /\ guard' = FALSE
    /\ start_time' = clock
    /\ pc' = "wait"
    /\ UNCHANGED << term_vars, opt_vars, exit_code, thrown, opened, profile,
                    gpio_vars, env_vars, iter_vars >>
    /\ cycles' = IF cycles < MaxCycles THEN cycles + 1 ELSE cycles
    /\ snap' = IF cycles = 0
               THEN LoopState(profile', started', opened', chip', request', guard',
                              start_time')
               ELSE snap

\* StartCamera ends the iteration; r goes out of scope with the block.
StillStart ==
    /\ pc = "still_start"
    /\ StartCamera /\ Call("StartCamera")
    /\ guard' = FALSE
    /\ pc' = "wait"
    /\ UNCHANGED << term_vars, opt_vars, exit_code, thrown, opened, profile,
                    start_time, gpio_vars, env_vars, iter_vars >>
    /\ cycles' = IF cycles < MaxCycles THEN cycles + 1 ELSE cycles
    /\ snap' = IF cycles = 0
               THEN LoopState(profile', started', opened', chip', request', guard',
                              start_time')
               ELSE snap

\* ------------------------------------------------------------------- Next
Next ==
    \/ Tick \/ TypeKey
    \/ setup_keyboard \/ ParseFalse \/ OutputMissing \/ ParseOk
    \/ MainCatch \/ MainReturn
    \/ ElOpen \/ ChipOpenOk \/ ChipOpenFails \/ RequestOk \/ RequestFails
    \/ Wait \/ TimeoutStop \/ TimeoutStart \/ Quit \/ Unrecognised \/ ReleaseGpio
    \/ EvalTriggers \/ VfStop \/ VfTeardown \/ VfConfigureStill \/ VfStart
    \/ ShowPreview
    \/ StillStop \/ StillGuard \/ JpegSave \/ JpegSaveThrows
    \/ SaveMetadata \/ SaveMetadataThrows
    \/ StillStopAgain \/ StillTeardown \/ StillConfigureViewfinder \/ StillStart

Spec == Init /\ [][Next]_vars

\* ---------------------------------------------------------------- helpers
LifecycleCalls == {"StopCamera", "Teardown", "ConfigureStill",
                   "ConfigureViewfinder", "StartCamera"}
ImageCalls     == {"jpeg_save"}
MetadataCalls  == {"write_metadata(file)", "write_metadata(cout)"}
EncodeCalls    == ImageCalls \cup MetadataCalls

IsLifecycle(c) == c \in LifecycleCalls
Lifecycle(log) == SelectSeq(log, IsLifecycle)
Count(log, S)  == Cardinality({ i \in DOMAIN log : log[i] \in S })
Positions(log, S) == { i \in DOMAIN log : log[i] \in S }

\* The calls a step adds to the log.
NewCalls == IF Len(calls') > Len(calls)
            THEN { calls'[i] : i \in (Len(calls) + 1)..Len(calls') }
            ELSE {}

\* Positions of the thread inside the for (;;) loop of event_loop.
LoopPositions == {"wait", "dispatch", "timeout_start", "vf_stop", "vf_teardown",
                  "vf_configure", "vf_start", "vf_preview", "still_guard",
                  "still_jpeg", "still_metadata", "still_stop", "still_teardown",
                  "still_configure", "still_start"}

\* msg (and the CompletedRequestPtr it carries) is declared in the loop body:
\* it lives from Wait's return to the end of the iteration.
payload_held == msg = "RequestComplete" /\ pc \in LoopPositions \ {"wait"}

\* The iteration that just ended (the thread is back at Wait).
IterationDone(type, mode) == pc = "wait" /\ msg = type /\ iter_mode = mode
Triggered == timeout_passed \/ KeyPressed(key) \/ ShutterPressed(shutter_button_value)

\* ------------------------------------------------------------------ claims

\* C1: event_loop never calls the encoder (jpeg_save / save_metadata) while the
\* viewfinder profile is active, and never calls ShowPreview while the still
\* profile is active.
C1_NoCrossModeOutput ==
    [][ /\ (NewCalls \cap EncodeCalls # {}) => profile = "still"
        /\ ("ShowPreview" \in NewCalls) => profile = "viewfinder" ]_vars

\* C1 witness: an image was encoded under the still profile.
C1_Witness ==
    /\ pc = "still_stop" /\ profile = "still"
    /\ Count(calls, ImageCalls) = 1

\* C2: a Timeout event, in either mode, stops and restarts the camera with no
\* teardown or reconfiguration; mode and profile are unchanged, no frame is
\* previewed or encoded, and the loop goes on to the next Wait.
C2_TimeoutRestartsSameProfile ==
    msg = "Timeout" =>
        /\ pc \in {"dispatch", "timeout_start", "wait"}
        /\ profile = iter_mode
        /\ Count(calls, EncodeCalls \cup {"ShowPreview", "Teardown",
                        "ConfigureStill", "ConfigureViewfinder"}) = 0
        /\ exit_code = "none"
        /\ pc = "wait" => /\ started
                          /\ Lifecycle(calls) = << "StopCamera", "StartCamera" >>

\* C2 witness: a Timeout was processed while the still profile was active.
C2_Witness ==
    /\ IterationDone("Timeout", "still")
    /\ profile = "still" /\ started

\* C3: every mode transition issues exactly stop, teardown, reconfigure,
\* start, and in the still branch the image write and then the metadata write
\* lie after the stop and before the teardown.
C3_TransitionCallOrder ==
    /\ (IterationDone("RequestComplete", "viewfinder") /\ profile = "still") =>
           Lifecycle(calls) = << "StopCamera", "Teardown", "ConfigureStill",
                                 "StartCamera" >>
    /\ IterationDone("RequestComplete", "still") =>
           /\ Lifecycle(calls) = << "StopCamera", "Teardown",
                                    "ConfigureViewfinder", "StartCamera" >>
           /\ \A i \in Positions(calls, EncodeCalls) :
                /\ \E j \in Positions(calls, {"StopCamera"}) : j < i
                /\ \A j \in Positions(calls, {"Teardown"}) : i < j
           /\ \A i \in Positions(calls, ImageCalls) :
                \A j \in Positions(calls, MetadataCalls) : i < j

\* C4: an event of a type other than Timeout, Quit, RequestComplete is fatal,
\* the GPIO line request and chip are released before the error leaves
\* event_loop, and the process reports failure.
C4_UnrecognisedReleasesGpio ==
    thrown = "unrecognised message!" =>
        /\ request = "released" /\ chip = "closed"
        /\ pc = "done" => exit_code = -1

\* C5: after a Quit, received in any mode, the line request and the chip are
\* each released exactly once and restore_keyboard runs exactly once before
\* the process exits.
C5_QuitReleasesOnce ==
    /\ n_release <= 1 /\ n_close <= 1 /\ n_restore <= 1
    /\ (pc = "done" /\ msg = "Quit") =>
           /\ n_release = 1 /\ request = "released"
           /\ n_close = 1 /\ chip = "closed"
           /\ n_restore = 1
           /\ exit_code = 0

\* C5 witness: the process exited after a Quit received while StillCapturing.
C5_Witness ==
    /\ pc = "done" /\ msg = "Quit" /\ iter_mode = "still"
    /\ n_release = 1 /\ n_close = 1 /\ n_restore = 1

\* C6: on every exit path of main the terminal configuration after
\* restore_keyboard equals the one the terminal had before setup_keyboard.
C6_TerminalRestored ==
    pc = "done" => term = term0

\* C7: if GPIO acquisition fails (chip or line request), event_loop still
\* enters its loop and processes events, and exactly one warning reports it.
C7_GpioFailureDegrades ==
    (chip = "null" \/ request = "null") =>
        /\ pc \in LoopPositions
        /\ Count(calls, {"LOG_ERROR"}) >= 1

\* C8 as stated: with a timeout T and no key or button trigger, a FrameReady in
\* Viewfinder causes the transition exactly when elapsed time >= T.
C8_TransitionIffElapsedAtLeastT ==
    ( /\ IterationDone("RequestComplete", "viewfinder")
      /\ timeout # 0
      /\ ~KeyPressed(key) /\ ~ShutterPressed(shutter_button_value) ) =>
        (profile = "still" <=> (now - start_time) >= timeout)

\* C8 amended: with a timeout T and no key or button trigger, a FrameReady in
\* Viewfinder causes the transition exactly when elapsed time > T; a frame
\* whose elapsed time equals T is previewed.
C8_TransitionIffElapsedAboveT ==
    ( /\ IterationDone("RequestComplete", "viewfinder")
      /\ timeout # 0
      /\ ~KeyPressed(key) /\ ~ShutterPressed(shutter_button_value) ) =>
        /\ profile = "still" <=> (now - start_time) > timeout
        /\ profile = "viewfinder" <=> (now - start_time) <= timeout
        /\ (now - start_time) <= timeout => calls = << "ShowPreview" >>

\* C8 witness: the timeout alone caused a transition.
C8_Witness ==
    /\ IterationDone("RequestComplete", "viewfinder")
    /\ timeout # 0 /\ (now - start_time) = timeout + 1
    /\ ~KeyPressed(key) /\ ~ShutterPressed(shutter_button_value)
    /\ profile = "still"

\* C9: when a trigger fires on a FrameReady in Viewfinder, the machine is in
\* StillCapturing at the end of that iteration and the triggering frame is
\* neither previewed nor encoded; the FrameReady received in StillCapturing
\* produces exactly one image-encode call and ends in Viewfinder, started.
C9_TriggerThenOneEncode ==
    /\ (IterationDone("RequestComplete", "viewfinder") /\ Triggered) =>
           /\ profile = "still" /\ started
           /\ Count(calls, EncodeCalls \cup {"ShowPreview"}) = 0
    /\ (msg = "RequestComplete" /\ iter_mode = "still") =>
           pc \notin {"vf_stop", "vf_teardown", "vf_configure", "vf_start",
                      "vf_preview"}
    /\ IterationDone("RequestComplete", "still") =>
           /\ Count(calls, ImageCalls) = 1
           /\ Count(calls, {"ShowPreview"}) = 0
           /\ profile = "viewfinder" /\ started

\* C9 witness: a capture triggered by key 'c' alone has completed.
C9_Witness ==
    /\ IterationDone("RequestComplete", "still")
    /\ ever_c /\ ~ever_active /\ timeout = 0
    /\ profile = "viewfinder" /\ started
    /\ Count(calls, ImageCalls) = 1

\* C10: with the timeout unset, no 'c' ever pending and the button never
\* active, the machine stays in Viewfinder: no teardown, no reconfiguration,
\* no encode call, and every FrameReady is forwarded to the preview.
C10_NoTriggerStaysInViewfinder ==
    (timeout = 0 /\ ~ever_c /\ ~ever_active) =>
        /\ profile \in {"none", "viewfinder"}
        /\ opened => profile = "viewfinder"
        /\ Count(calls, EncodeCalls \cup {"Teardown", "ConfigureStill"}) = 0
        /\ msg # "none" => Count(calls, {"ConfigureViewfinder"}) = 0
        /\ (pc = "wait" /\ msg = "RequestComplete") => calls = << "ShowPreview" >>

\* C10 witness: a frame was previewed although a key other than 'c' was read.
C10_Witness ==
    /\ timeout = 0 /\ ~ever_c /\ ~ever_active
    /\ IterationDone("RequestComplete", "viewfinder")
    /\ key = KEY_X
    /\ calls = << "ShowPreview" >>

\* C11: every app.Wait() happens with the camera opened, configured and
\* started, after any sequence of events, and every position inside the loop
\* body is processing the one event that Wait returned.
C11_WaitOnlyWhenStarted ==
    /\ pc = "wait" => /\ opened /\ started
                      /\ profile \in {"viewfinder", "still"}
    /\ pc \in (LoopPositions \ {"wait"}) => msg \in MsgTypes
    /\ pc = "dispatch" => calls = << >>

\* C11 witness: the loop waits under the still profile after a completed cycle.
C11_Witness ==
    /\ pc = "wait" /\ started /\ profile = "still" /\ cycles >= 1

\* C12: when jpeg_save or the metadata write fails inside the loop, the error
\* reaches main, and before the process reports failure with a non-zero status
\* the terminal mode is restored and the GPIO line request and chip are released.
C12_FailureReleasesResources ==
    thrown \in {"jpeg_save", "save_metadata"} =>
        /\ pc \in {"main_catch", "done"}
        /\ pc = "done" => /\ exit_code = -1
                          /\ n_restore = 1
                          /\ request = "released" /\ chip = "closed"

\* C13: after any number of complete Viewfinder -> StillCapturing -> Viewfinder
\* cycles the loop's state equals its state after the first cycle: viewfinder
\* configured and started, chip and line held once, no guard, no payload.
C13_CyclesLeaveSameState ==
    IterationDone("RequestComplete", "still") =>
        /\ cycles >= 1
        /\ LoopState(profile, started, opened, chip, request, guard, start_time) = snap
        /\ snap = LoopState("viewfinder", TRUE, TRUE, "open", "held", FALSE, start_time)
        /\ n_release = 0 /\ n_close = 0
        /\ ~payload_held

\* C13 witness: a second cycle has completed.
C13_Witness ==
    /\ IterationDone("RequestComplete", "still")
    /\ cycles = 2

\* C14: if the output name is missing after a successful Parse, main fails
\* before event_loop: the camera is never opened, no GPIO handle is acquired,
\* no event is received and the exit status is non-zero.
C14_MissingOutputFailsEarly ==
    (parsed /\ ~output_set) =>
        /\ pc \in {"main_catch", "done"}
        /\ thrown = "output file name required"
        /\ ~opened /\ profile = "none" /\ ~started
        /\ chip = "unset" /\ request = "unset"
        /\ msg = "none"
        /\ pc = "done" => exit_code = -1

\* C14 witness: the process has exited on the missing output name.
C14_Witness ==
    /\ parsed /\ ~output_set
    /\ pc = "done" /\ exit_code = -1

\* C15: the clock, the key and the GPIO line are read exactly once per
\* FrameReady received in Viewfinder and at no other time: not for Quit,
\* Timeout or an unrecognised message (which also make no mode-transition
\* call), not in StillCapturing; at most one pending character is consumed
\* per iteration.
C15_TriggersOncePerViewfinderFrame ==
    /\ [] /\ n_key_read <= 1 /\ n_line_read <= 1
          /\ msg \in {"none", "Quit", "Timeout", "Other"} =>
                 /\ n_key_read = 0 /\ n_line_read = 0
                 /\ Count(calls, {"Teardown", "ConfigureStill"}) = 0
                 /\ msg # "none" => Count(calls, {"ConfigureViewfinder"}) = 0
          /\ msg = "Quit" => Count(calls, LifecycleCalls) = 0
          /\ iter_mode = "still" => (n_key_read = 0 /\ n_line_read = 0)
          /\ (msg = "RequestComplete" /\ iter_mode = "viewfinder" /\ pc # "dispatch")
                 => (n_key_read = 1 /\ n_line_read = 1)
    /\ [][ /\ Len(stdin') >= Len(stdin) - 1
           /\ Len(stdin') < Len(stdin) => n_key_read' = n_key_read + 1
           /\ now' # now =>
                 (pc = "wait" \/ (pc = "dispatch" /\ n_key_read' = n_key_read + 1)) ]_vars

\* C15 witness: a viewfinder frame whose single key read consumed one of two
\* pending characters.
C15_Witness ==
    /\ msg = "RequestComplete" /\ iter_mode = "viewfinder"
    /\ pc \in {"vf_stop", "vf_preview"}
    /\ n_key_read = 1 /\ n_line_read = 1
    /\ key # KEY_NONE /\ Len(stdin) = 1

\* C16: in the still branch the metadata record is written if and only if a
\* metadata destination is configured, after the image write and never before
\* or instead of it; a failing metadata write comes after the image write;
\* each still frame has exactly one image write and at most one metadata write.
C16_MetadataAfterImage ==
    /\ Count(calls, ImageCalls) <= 1 /\ Count(calls, MetadataCalls) <= 1
    /\ \A i \in Positions(calls, MetadataCalls) :
           \E j \in Positions(calls, ImageCalls) : j < i
    /\ Count(calls, MetadataCalls) = 1 => metadata # ""
    /\ Count(calls, {"write_metadata(cout)"}) = 1 => metadata = "-"
    /\ Count(calls, {"write_metadata(file)"}) = 1 => metadata \notin {"", "-"}
    /\ thrown = "jpeg_save" => Count(calls, MetadataCalls) = 0
    /\ thrown = "save_metadata" => Count(calls, ImageCalls) = 1
    /\ IterationDone("RequestComplete", "still") =>
           /\ Count(calls, ImageCalls) = 1
           /\ Count(calls, MetadataCalls) = IF metadata # "" THEN 1 ELSE 0

\* C16 witness: a still frame was written with its metadata sent to cout.
C16_Witness ==
    /\ IterationDone("RequestComplete", "still")
    /\ metadata = "-"
    /\ Count(calls, {"write_metadata(cout)"}) = 1
    /\ Count(calls, ImageCalls) = 1

\* C17: the BufferReadSync is acquired after the still pipeline is stopped, is
\* held for the image and the metadata write, and is released right after
\* them, before the still profile is torn down; no guard and no payload is
\* held when the next event is received.
C17_GuardReleasedBeforeTeardown ==
    /\ guard => (~started /\ profile = "still")
    /\ pc \in {"still_jpeg", "still_metadata"} => guard
    /\ pc \in {"still_stop", "still_teardown", "still_configure", "still_start"}
           => ~guard
    /\ pc = "wait" => (~guard /\ ~payload_held)

\* C18: StartCamera is called only on a configured, stopped pipeline,
\* StopCamera only on a started one (never twice in a row without a start),
\* Teardown only on a stopped one, Configure only after OpenCamera or Teardown.
C18_LifecycleWellFormed ==
    /\ pc \in {"vf_stop", "still_stop"} => started
    /\ (pc = "dispatch" /\ (msg = "Timeout" \/ (msg = "RequestComplete" /\ StillStream)))
           => started
    /\ pc \in {"vf_start", "still_start", "timeout_start"}
           => (~started /\ profile # "none")
    /\ pc \in {"vf_teardown", "still_teardown"} => ~started
    /\ pc \in {"vf_configure", "still_configure"} => profile = "none"
    /\ \A i \in 1..(Len(Lifecycle(calls)) - 1) :
           ~(Lifecycle(calls)[i] = "StopCamera" /\ Lifecycle(calls)[i + 1] = "StopCamera")

\* C19: start_time is never taken again, so the timeout trigger latches: once a
\* viewfinder frame has seen the timeout elapsed it stays elapsed, every later
\* viewfinder frame triggers a capture, no frame is previewed any more, and
\* trigger frames alternate with encoded still frames.
C19_TimeoutLatches ==
    ever_timeout =>
        /\ TimeoutPassed(clock, start_time, timeout)
        /\ pc # "vf_preview"
        /\ Count(calls, {"ShowPreview"}) = 0
        /\ IterationDone("RequestComplete", "viewfinder") =>
               (timeout_passed /\ profile = "still")
        /\ IterationDone("RequestComplete", "still") =>
               (Count(calls, ImageCalls) = 1 /\ profile = "viewfinder")

\* C19 witness: after a completed capture the timeout alone triggers again.
C19_Witness ==
    /\ ever_timeout /\ ~ever_c /\ ~ever_active
    /\ cycles >= 1
    /\ IterationDone("RequestComplete", "viewfinder")
    /\ profile = "still"

\* C20: pending characters leave stdin only in FIFO order, one per FrameReady
\* processed in Viewfinder, never in StillCapturing or on Timeout; a character
\* other than 'c' is consumed without a transition, and a 'c' read at the head
\* of stdin triggers a capture whenever it was typed.
C20_KeysConsumedInOrder ==
    /\ [][ stdin' # stdin =>
             \/ /\ \E k \in Keys : stdin' = Append(stdin, k)
                /\ pc' = pc
             \/ /\ pc = "dispatch" /\ msg = "RequestComplete"
                /\ iter_mode = "viewfinder"
                /\ stdin # << >>
                /\ stdin' = Tail(stdin)
                /\ key' = Head(stdin) ]_vars
    /\ [][ (pc = "dispatch" /\ pc' \in {"vf_stop", "vf_preview"} /\ stdin = << >>)
             => key' = KEY_NONE ]_vars
    /\ [] /\ (IterationDone("RequestComplete", "viewfinder") /\ key = KEY_C)
                 => profile = "still"
          /\ ( /\ IterationDone("RequestComplete", "viewfinder")
               /\ key # KEY_C
               /\ ~timeout_passed /\ ~ShutterPressed(shutter_button_value) )
                 => (profile = "viewfinder" /\ calls = << "ShowPreview" >>)

\* C20 witness: after a completed capture, with no other trigger, a 'c' read
\* behind an earlier character starts a new capture.
C20_Witness ==
    /\ IterationDone("RequestComplete", "viewfinder")
    /\ cycles >= 1 /\ timeout = 0 /\ ~ever_active
    /\ key = KEY_C
    /\ profile = "still"

====
